---- MODULE Spec2Model ----
(***************************************************************************)
(* Model of the two command-line utilities of the repository:              *)
(*   file_type_detector.py  - magic-number sniffer (detect / analyze /     *)
(*                            main loop with mismatch summary)             *)
(*   generate_pins.py       - unique PIN sampler and its CLI main          *)
(* Bytes and characters are their integer codes; a bytes/str object is a   *)
(* sequence of codes.  Python dicts are sequences of entries in insertion  *)
(* order.  Runs of the sniffer with --list are outside the model.          *)
(***************************************************************************)
EXTENDS FiniteSets, Integers, Sequences, TLC

VARIABLES
  \* ---- detect_file_type called on its own (pure function) ----
  header,      \* argument header: bytes
  db,          \* argument magic_db: ordered catalog
  detected,    \* return value (None or a type name)
  dpc,         \* "call" | "returned"
  \* ---- file_type_detector.main ----
  files,       \* args.files, each entry a path with what the file system holds there
  idx,         \* position of the for loop over args.files (1-based)
  mismatches,  \* the list `mismatches`
  output,      \* lines printed so far
  last,        \* the locals (detected_type, expected_type, mismatch) of the last analyze_file
  pc,          \* "start" | "loop" | "done" | "crashed" | "usage_error"
  exit_code,   \* process exit status, NoExit while running
  \* ---- _generate_unique_pins ----
  length,      \* argument length
  count,       \* argument count
  pins,        \* the set `pins`
  drawn,       \* TRUE once secrets.token_bytes has been read in this call
  gpc,         \* "idle" | "entry" | "loop" | "returned" | "raised"
  result,      \* returned list
  err,         \* message of the ValueError raised, NoError otherwise
  \* ---- generate_pins.main ----
  args,        \* parsed arguments: count4, count6, count8, info
  groups,      \* lists generated so far, as <<length, pins>> pairs (pins4, pins6, pins8)
  mpc,         \* "start" | "gen4" | "gen6" | "gen8" | "write" | "done" | "info_done" | "aborted"
  file         \* the output file: whether open() ran, and the strings written

detectVars == <<header, db, detected, dpc>>
snifferVars == <<files, idx, mismatches, output, last, pc, exit_code>>
genVars == <<length, count, pins, drawn, gpc, result, err>>
pinMainVars == <<args, groups, mpc, file>>
vars == <<detectVars, snifferVars, genVars, pinMainVars>>

\* ------------------------------------------------------------------ bounds
MaxTail == 1          \* bytes appended after a pattern prefix in sampled headers
MaxFiles == 2         \* paths on the sniffer command line
RandMax == 10         \* the hashed random integer ranges over 0..RandMax
MaxCount == 3         \* largest ordinary count passed to _generate_unique_pins
MaxMainCount == 1     \* largest ordinary --countN value in the PIN CLI
MaxLength == 2        \* largest length passed to _generate_unique_pins

\* ------------------------------------------------------------- sentinels
None == "<None>"
NoExit == -1
NoError == "<no error>"

\* =====================================================================
\*                       file_type_detector.py
\* =====================================================================

\* MAGIC_DATABASE with one pattern shortened so that it is a prefix of another type's.
MAGIC_DATABASE_Overlap ==
  << [name |-> "JPEG", patterns |-> << <<255, 216, 255>> >>],
     [name |-> "PNG",  patterns |-> << <<137, 80, 78, 71, 13, 10, 26, 10>> >>],
     [name |-> "GIF",  patterns |-> << <<71, 73, 70, 56, 55, 97>>, <<71, 73, 70, 56, 57, 97>> >>],
     [name |-> "PDF",  patterns |-> << <<37, 80, 68, 70, 45>> >>],
     [name |-> "ZIP",  patterns |-> << <<80, 75, 3, 4>>, <<80, 75, 5, 6>>, <<80, 75, 7, 8>> >>],
     [name |-> "GZIP", patterns |-> << <<31, 139, 8>> >>],
     [name |-> "RAR",  patterns |-> << <<82, 97, 114, 33, 26, 7, 0>>, <<82, 97, 114, 33, 26, 7, 1, 0>> >>],
     [name |-> "7Z",   patterns |-> << <<55, 122, 188, 175, 39, 28>> >>],
     [name |-> "BMP",  patterns |-> << <<66, 77>> >>],
     [name |-> "EXE",  patterns |-> << <<77, 90>> >>],
     [name |-> "ELF",  patterns |-> << <<127, 69, 76, 70>> >>],
     [name |-> "MP3",  patterns |-> << <<73, 68, 51>>, <<255>> >>],
     [name |-> "WAV",  patterns |-> << <<82, 73, 70, 70>> >>],
     [name |-> "FLAC", patterns |-> << <<102, 76, 97, 67>> >>],
     [name |-> "MP4",  patterns |-> << <<0, 0, 0>> >>] >>

\* The shipped catalog, in declaration order.
MAGIC_DATABASE ==
  << [name |-> "JPEG", patterns |-> << <<255, 216, 255>> >>],
     [name |-> "PNG",  patterns |-> << <<137, 80, 78, 71, 13, 10, 26, 10>> >>],
     [name |-> "GIF",  patterns |-> << <<71, 73, 70, 56, 55, 97>>, <<71, 73, 70, 56, 57, 97>> >>],
     [name |-> "PDF",  patterns |-> << <<37, 80, 68, 70, 45>> >>],
     [name |-> "ZIP",  patterns |-> << <<80, 75, 3, 4>>, <<80, 75, 5, 6>>, <<80, 75, 7, 8>> >>],
     [name |-> "GZIP", patterns |-> << <<31, 139, 8>> >>],
     [name |-> "RAR",  patterns |-> << <<82, 97, 114, 33, 26, 7, 0>>, <<82, 97, 114, 33, 26, 7, 1, 0>> >>],
     [name |-> "7Z",   patterns |-> << <<55, 122, 188, 175, 39, 28>> >>],
     [name |-> "BMP",  patterns |-> << <<66, 77>> >>],
     [name |-> "EXE",  patterns |-> << <<77, 90>> >>],
     [name |-> "ELF",  patterns |-> << <<127, 69, 76, 70>> >>],
     [name |-> "MP3",  patterns |-> << <<73, 68, 51>>, <<255, 251>> >>],
     [name |-> "WAV",  patterns |-> << <<82, 73, 70, 70>> >>],
     [name |-> "FLAC", patterns |-> << <<102, 76, 97, 67>> >>],
     [name |-> "MP4",  patterns |-> << <<0, 0, 0>> >>] >>

\* EXTENSION_MAP: lowercase suffix (character codes, leading dot included) -> type name.
EXTENSION_MAP ==
  << [ext |-> <<46, 106, 112, 103>>,      type |-> "JPEG"],   \* .jpg
     [ext |-> <<46, 106, 112, 101, 103>>, type |-> "JPEG"],   \* .jpeg
     [ext |-> <<46, 112, 110, 103>>,      type |-> "PNG"],    \* .png
     [ext |-> <<46, 103, 105, 102>>,      type |-> "GIF"],    \* .gif
     [ext |-> <<46, 112, 100, 102>>,      type |-> "PDF"],    \* .pdf
     [ext |-> <<46, 122, 105, 112>>,      type |-> "ZIP"],    \* .zip
     [ext |-> <<46, 103, 122>>,           type |-> "GZIP"],   \* .gz
     [ext |-> <<46, 114, 97, 114>>,       type |-> "RAR"],    \* .rar
     [ext |-> <<46, 55, 122>>,            type |-> "7Z"],     \* .7z
     [ext |-> <<46, 98, 109, 112>>,       type |-> "BMP"],    \* .bmp
     [ext |-> <<46, 101, 120, 101>>,      type |-> "EXE"],    \* .exe
     [ext |-> <<46, 100, 108, 108>>,      type |-> "EXE"],    \* .dll
     [ext |-> <<46, 101, 108, 102>>,      type |-> "ELF"],    \* .elf
     [ext |-> <<46, 109, 112, 51>>,       type |-> "MP3"],    \* .mp3
     [ext |-> <<46, 119, 97, 118>>,       type |-> "WAV"],    \* .wav
     [ext |-> <<46, 102, 108, 97, 99>>,   type |-> "FLAC"],   \* .flac
     [ext |-> <<46, 109, 112, 52>>,       type |-> "MP4"] >>  \* .mp4

\* Every pattern of the catalog (the generator of longest_magic_length).
AllPatterns(magic_db) ==
  UNION { { magic_db[i].patterns[j] : j \in DOMAIN magic_db[i].patterns } : i \in DOMAIN magic_db }

\* max(len(pattern) for patterns in magic_db.values() for pattern in patterns)
longest_magic_length(magic_db) ==
  CHOOSE n \in { Len(p) : p \in AllPatterns(magic_db) } :
    \A p \in AllPatterns(magic_db) : Len(p) <= n

\* file_handle.read(byte_count): the first byte_count bytes, fewer when the file is shorter.
read_file_header(content, byte_count) ==
  IF Len(content) <= byte_count THEN content ELSE SubSeq(content, 1, byte_count)

\* bytes.startswith(pattern)
StartsWith(h, pattern) ==
  /\ Len(pattern) <= Len(h)
  /\ \A k \in 1..Len(pattern) : h[k] = pattern[k]

\* the inner loop `for pattern in patterns: if header.startswith(pattern)`, from pattern j on
RECURSIVE ScanPatterns(_, _, _)
ScanPatterns(h, patterns, j) ==
  IF j > Len(patterns) THEN FALSE
  ELSE IF StartsWith(h, patterns[j]) THEN TRUE
  ELSE ScanPatterns(h, patterns, j + 1)

\* the outer loop `for type_name, patterns in magic_db.items()`, from entry i on
RECURSIVE ScanTypes(_, _, _)
ScanTypes(h, magic_db, i) ==
  IF i > Len(magic_db) THEN None
  ELSE IF ScanPatterns(h, magic_db[i].patterns, 1) THEN magic_db[i].name
  ELSE ScanTypes(h, magic_db, i + 1)

\* a scan that keeps the last matching type instead of returning the first
RECURSIVE ScanTypesLast(_, _, _)
ScanTypesLast(h, magic_db, i) ==
  IF i < 1 THEN None
  ELSE IF ScanPatterns(h, magic_db[i].patterns, 1) THEN magic_db[i].name
  ELSE ScanTypesLast(h, magic_db, i - 1)

detect_file_type_LastMatch(h, magic_db) == ScanTypesLast(h, magic_db, Len(magic_db))

detect_file_type(h, magic_db) == ScanTypes(h, magic_db, 1)

\* str.lower() on one character code (ASCII letters)
LowerChar(c) == IF c \in 65..90 THEN c + 32 ELSE c

\* path.suffix.lower()
Lower(s) == [k \in 1..Len(s) |-> LowerChar(s[k])]

\* dict.get(key): the value stored under key, None when absent
MapGet(extension_map, key) ==
  IF \E i \in DOMAIN extension_map : extension_map[i].ext = key
  THEN extension_map[CHOOSE i \in DOMAIN extension_map : extension_map[i].ext = key].type
  ELSE None

expected_type_from_extension(path, extension_map) == MapGet(extension_map, Lower(path.suffix))

\* f"Extension suggests {expected_type}, but header indicates {detected_type}."
SuggestsMsg(expected_type, detected_type) ==
  "Extension suggests " \o expected_type \o ", but header indicates " \o detected_type \o "."

NoExpectedMsg == "No known expected type for this extension."

\* the if/elif of analyze_file, with an elif branch that forgets the Unknown test
Classify_NoUnknownTest(detected_type, expected_type) ==
  IF expected_type # None /\ expected_type # detected_type
  THEN SuggestsMsg(expected_type, detected_type)
  ELSE IF expected_type = None THEN NoExpectedMsg
  ELSE None

\* the if/elif of analyze_file computing `mismatch`
Classify(detected_type, expected_type) ==
  IF expected_type # None /\ expected_type # detected_type
  THEN SuggestsMsg(expected_type, detected_type)
  ELSE IF expected_type = None
       THEN (IF detected_type # "Unknown" THEN NoExpectedMsg ELSE None)
  ELSE None

\* detect_file_type(header, magic_db) or "Unknown"
OrUnknown(t) == IF t = None THEN "Unknown" ELSE t

\* analyze_file for a path that opens: (detected_type, expected_type, mismatch)
analyze_file(path, magic_db, extension_map) ==
  LET max_length == longest_magic_length(magic_db)
      hdr == read_file_header(path.content, max_length)
      detected_type == OrUnknown(detect_file_type(hdr, magic_db))
      expected_type == expected_type_from_extension(path, extension_map)
  IN [detected |-> detected_type, expected |-> expected_type,
      mismatch |-> Classify(detected_type, expected_type)]

\* ---------------------------------------------------------------------
\* detect_file_type on its own: inputs drawn in Init, one action applies it
\* ---------------------------------------------------------------------

\* A catalog with overlapping patterns, an empty pattern list and a repeated pattern.
OverlapCatalog ==
  << [name |-> "SHORT", patterns |-> << <<66>> >>],
     [name |-> "EMPTY", patterns |-> << >>],
     [name |-> "LONG",  patterns |-> << <<66, 77>>, <<255, 216>> >>],
     [name |-> "JPEG",  patterns |-> << <<255, 216, 255>>, <<66, 77>> >>] >>

Reverse(s) == [k \in 1..Len(s) |-> s[Len(s) + 1 - k]]

Rotate(s, n) == [k \in 1..Len(s) |-> s[((k - 1 + n) % Len(s)) + 1]]

\* insertion orders of one catalog: declaration order, reversed, and every rotation
Orders(cat) == {cat, Reverse(cat)} \cup { Rotate(cat, n) : n \in 1..(Len(cat) - 1) }

Catalogs == Orders(MAGIC_DATABASE) \cup Orders(OverlapCatalog) \cup { << >> }

ExtraBytes == {0, 255}

RECURSIVE Tails(_)
Tails(n) ==
  IF n = 0 THEN { << >> }
  ELSE Tails(n - 1) \cup { Append(t, b) : t \in Tails(n - 1), b \in ExtraBytes }

Prefixes(p) == { SubSeq(p, 1, k) : k \in 0..Len(p) }

\* sampled headers: every prefix of every pattern (the empty header included),
\* followed by up to MaxTail further bytes
HeaderSamples ==
  { p \o t : p \in UNION { Prefixes(q) : q \in AllPatterns(MAGIC_DATABASE) \cup AllPatterns(OverlapCatalog) },
             t \in Tails(MaxTail) }

SnifferIdle ==
  /\ files = << >> /\ idx = 0 /\ mismatches = << >> /\ output = << >>
  /\ last = [detected |-> None, expected |-> None, mismatch |-> None]
  /\ pc = "idle" /\ exit_code = NoExit

GenIdle ==
  /\ length = 0 /\ count = 0 /\ pins = {} /\ drawn = FALSE
  /\ gpc = "idle" /\ result = << >> /\ err = NoError

PinMainIdle ==
  /\ args = [count4 |-> 0, count6 |-> 0, count8 |-> 0, info |-> FALSE]
  /\ groups = << >> /\ mpc = "idle" /\ file = [opened |-> FALSE, writes |-> << >>]

DetectIdle ==
  /\ header = << >> /\ db = << >> /\ detected = None /\ dpc = "idle"

InitDetect ==
  /\ header \in HeaderSamples
  /\ db \in Catalogs
  /\ detected = None
  /\ dpc = "call"
  /\ SnifferIdle /\ GenIdle /\ PinMainIdle

\* detect_file_type(header, magic_db)
Detect ==
  /\ dpc = "call"
  /\ detected' = detect_file_type(header, db)
  /\ dpc' = "returned"
  /\ UNCHANGED <<header, db, snifferVars, genVars, pinMainVars>>

NextDetect == Detect

SpecDetect == InitDetect /\ [][NextDetect]_vars

\* ---------------------------------------------------------------------
\* file_type_detector.main (runs without --list)
\* ---------------------------------------------------------------------

PngBytes == <<137, 80, 78, 71, 13, 10, 26, 10, 0, 0, 0, 13>>
JpegBytes == <<255, 216, 255, 224>>
GifBytes == <<71, 73, 70, 56, 57, 97>>
TextBytes == <<104, 105>>

\* what a command-line path can name: nothing ("missing"), a readable file
\* ("file") or something exists() accepts and open("rb") refuses ("unreadable":
\* a directory, a file without read permission)
PathSamples ==
  { [name |-> "photo.jpg", suffix |-> <<46, 106, 112, 103>>, kind |-> "file", content |-> PngBytes],
    [name |-> "real.jpg",  suffix |-> <<46, 106, 112, 103>>, kind |-> "file", content |-> JpegBytes],
    [name |-> "FILE.PNG",  suffix |-> <<46, 80, 78, 71>>,    kind |-> "file", content |-> PngBytes],
    [name |-> "anim.gif",  suffix |-> <<46, 103, 105, 102>>, kind |-> "file", content |-> GifBytes],
    [name |-> "empty.gif", suffix |-> <<46, 103, 105, 102>>, kind |-> "file", content |-> << >>],
    [name |-> "image.xyz", suffix |-> <<46, 120, 121, 122>>, kind |-> "file", content |-> JpegBytes],
    [name |-> "notes.xyz", suffix |-> <<46, 120, 121, 122>>, kind |-> "file", content |-> TextBytes],
    [name |-> "README",    suffix |-> << >>,                 kind |-> "file", content |-> TextBytes],
    [name |-> "gone.png",  suffix |-> <<46, 112, 110, 103>>, kind |-> "missing", content |-> << >>],
    [name |-> "dir.zip",   suffix |-> <<46, 122, 105, 112>>, kind |-> "unreadable", content |-> << >>],
    [name |-> "secret",    suffix |-> << >>,                 kind |-> "unreadable", content |-> << >>] }

RECURSIVE PathLists(_)
PathLists(n) ==
  IF n = 0 THEN { << >> }
  ELSE PathLists(n - 1) \cup { Append(l, p) : l \in { m \in PathLists(n - 1) : Len(m) = n - 1 }, p \in PathSamples }

\* file_path.exists()
Exists(path) == path.kind # "missing"

\* path.open("rb") succeeds
Opens(path) == path.kind = "file"

InitSniffer ==
  /\ files \in PathLists(MaxFiles)
  /\ idx = 0
  /\ mismatches = << >>
  /\ output = << >>
  /\ last = [detected |-> None, expected |-> None, mismatch |-> None]
  /\ pc = "start"
  /\ exit_code = NoExit
  /\ DetectIdle /\ GenIdle /\ PinMainIdle

\* `if not args.files: parser.error(...)`, else `mismatches = []` and enter the loop
Sniffer_Start ==
  /\ pc = "start"
  /\ IF files = << >>
     THEN /\ pc' = "usage_error"
          /\ exit_code' = 2
          /\ UNCHANGED <<idx, mismatches>>
     ELSE /\ pc' = "loop"
          /\ idx' = 1
          /\ mismatches' = << >>
          /\ UNCHANGED exit_code
  /\ UNCHANGED <<files, output, last, detectVars, genVars, pinMainVars>>

\* one iteration of `for file_path in args.files`
Sniffer_File ==
  /\ pc = "loop"
  /\ idx <= Len(files)
  /\ LET file_path == files[idx] IN
       IF ~Exists(file_path)
       THEN /\ output' = Append(output, "[ERROR] " \o file_path.name \o " does not exist.")
            /\ idx' = idx + 1
            /\ UNCHANGED <<mismatches, last, pc, exit_code>>
       ELSE IF ~Opens(file_path)
       THEN \* path.open raises OSError inside analyze_file; nothing catches it
            /\ pc' = "crashed"
            /\ exit_code' = 1
            /\ UNCHANGED <<idx, mismatches, output, last>>
       ELSE LET r == analyze_file(file_path, MAGIC_DATABASE, EXTENSION_MAP) IN
            /\ last' = r
            /\ output' = output \o
                 << "\nFile: " \o file_path.name,
                    "  Detected type: " \o r.detected,
                    IF r.expected # None
                    THEN "  Extension expects: " \o r.expected
                    ELSE "  Extension expects: <unknown>",
                    IF r.mismatch # None
                    THEN "  MISMATCH: " \o r.mismatch
                    ELSE "  Status: extension matches detected type." >>
            /\ mismatches' = IF r.mismatch # None
                             THEN Append(mismatches, file_path.name \o ": " \o r.mismatch)
                             ELSE mismatches
            /\ idx' = idx + 1
            /\ UNCHANGED <<pc, exit_code>>
  /\ UNCHANGED <<files, detectVars, genVars, pinMainVars>>

AllMatchLine == "- All inspected files match their extensions or types are unknown."

\* after the loop: the summary, then `return 0`
Sniffer_Summary ==
  /\ pc = "loop"
  /\ idx > Len(files)
  /\ output' = output \o <<"\nSummary:">> \o
       (IF mismatches # << >>
        THEN [k \in 1..Len(mismatches) |-> "- " \o mismatches[k]]
        ELSE <<AllMatchLine>>)
  /\ pc' = "done"
  /\ exit_code' = 0
  /\ UNCHANGED <<files, idx, mismatches, last, detectVars, genVars, pinMainVars>>

NextSniffer == Sniffer_Start \/ Sniffer_File \/ Sniffer_Summary

SpecSniffer == InitSniffer /\ [][NextSniffer]_vars

\* ---------------------------------------------------------------------
\* analyze_file on its own: a readable path drawn in Init, one action applies it
\* ---------------------------------------------------------------------

\* suffixes: every cataloged extension, mixed-case spellings, uncataloged ones, none
SuffixSamples ==
  { EXTENSION_MAP[i].ext : i \in DOMAIN EXTENSION_MAP }
    \cup { <<46, 80, 78, 71>>, <<46, 74, 112, 71>>, <<46, 120, 121, 122>>, << >> }

AnalyzePaths ==
  { [name |-> "sample", suffix |-> s, kind |-> "file", content |-> c] :
      s \in SuffixSamples, c \in HeaderSamples \cup {PngBytes, TextBytes} }

InitAnalyze ==
  /\ files \in { <<p>> : p \in AnalyzePaths }
  /\ idx = 1
  /\ mismatches = << >>
  /\ output = << >>
  /\ last = [detected |-> None, expected |-> None, mismatch |-> None]
  /\ pc = "analyze"
  /\ exit_code = NoExit
  /\ DetectIdle /\ GenIdle /\ PinMainIdle

\* analyze_file(path, MAGIC_DATABASE, EXTENSION_MAP)
Analyze ==
  /\ pc = "analyze"
  /\ last' = analyze_file(files[idx], MAGIC_DATABASE, EXTENSION_MAP)
  /\ pc' = "analyzed"
  /\ UNCHANGED <<files, idx, mismatches, output, exit_code, detectVars, genVars, pinMainVars>>

NextAnalyze == Analyze

SpecAnalyze == InitAnalyze /\ [][NextAnalyze]_vars

\* =====================================================================
\*                          generate_pins.py
\* =====================================================================

\* 10 ** n for n >= 0
RECURSIVE Pow10(_)
Pow10(n) == IF n <= 0 THEN 1 ELSE 10 * Pow10(n - 1)

\* the decimal digits of n >= 0, most significant first
RECURSIVE DecimalDigits(_)
DecimalDigits(n) == IF n < 10 THEN <<n>> ELSE Append(DecimalDigits(n \div 10), n % 10)

\* left-pad with "0" up to width; a longer string is left alone
RECURSIVE ZeroPad(_, _)
ZeroPad(s, width) == IF Len(s) >= width THEN s ELSE ZeroPad(<<0>> \o s, width)

\* formatting without the zero fill: str(pin_int)
FormatPin_NoPad(pin_int, width) == DecimalDigits(pin_int)

\* f"{pin_int:0{length}d}"
FormatPin(pin_int, width) == ZeroPad(DecimalDigits(pin_int), width)

\* _complex_random_digits for length > 0, given the integer read from the digest
complex_random_digits(len, random_number) ==
  FormatPin(random_number % Pow10(len), len)

\* `if count < 0` dropped
CountNegative_Never(n) == FALSE

\* `if count < 0`
CountNegative(n) == n < 0

\* `count > max_unique + 1`
ExceedsMax_OffByOne(len, n) ==
  IF len >= 0 THEN n > Pow10(len) + 1 ELSE n > 0

\* `count > max_unique` with max_unique = 10 ** length; for length < 0 Python
\* yields a float strictly between 0 and 1, which an integer exceeds iff it is >= 1
ExceedsMax(len, n) ==
  IF len >= 0 THEN n > Pow10(len) ELSE n > 0

\* `while len(pins) <= count`
LoopContinues_Leq(s, n) == Cardinality(s) <= n

\* `while len(pins) < count`
LoopContinues(s, n) == Cardinality(s) < n

\* str < str on digit strings: lexicographic, a proper prefix sorts first
LexLess(a, b) ==
  \/ \E k \in 1..Len(a) :
       /\ k <= Len(b)
       /\ a[k] < b[k]
       /\ \A j \in 1..(k - 1) : a[j] = b[j]
  \/ /\ Len(a) < Len(b)
     /\ \A j \in 1..Len(a) : a[j] = b[j]

\* sorted(pins)
RECURSIVE Sorted(_)
Sorted(S) ==
  IF S = {} THEN << >>
  ELSE LET m == CHOOSE x \in S : \A y \in S \ {x} : LexLess(x, y)
       IN <<m>> \o Sorted(S \ {m})

\* lengths and counts _generate_unique_pins is called with
Lengths == (-1)..MaxLength

Counts(len) == ((-1)..MaxCount) \cup (IF len >= 0 THEN {Pow10(len), Pow10(len) + 1} ELSE {})

\* values of int.from_bytes(digest, "big") the random source can produce
RandomNumbers == 0..RandMax

InitPins ==
  /\ length \in Lengths
  /\ count \in Counts(length)
  /\ pins = {}
  /\ drawn = FALSE
  /\ gpc = "entry"
  /\ result = << >>
  /\ err = NoError
  /\ DetectIdle /\ SnifferIdle /\ PinMainIdle

\* entry of _generate_unique_pins: the two validations before the loop
Generate_Enter ==
  /\ gpc = "entry"
  /\ IF CountNegative(count)
     THEN /\ gpc' = "raised"
          /\ err' = "Count cannot be negative"
          /\ UNCHANGED pins
     ELSE IF ExceedsMax(length, count)
     THEN /\ gpc' = "raised"
          /\ err' = "Cannot generate"
          /\ pins' = {}
     ELSE /\ gpc' = "loop"
          /\ pins' = {}
          /\ UNCHANGED err
  /\ UNCHANGED <<length, count, drawn, result, detectVars, snifferVars, pinMainVars>>

\* one iteration of the while loop: pins.add(_complex_random_digits(length))
Generate_Draw(random_number) ==
  /\ gpc = "loop"
  /\ LoopContinues(pins, count)
  /\ IF length <= 0
     THEN \* _complex_random_digits raises before reading the random source
          /\ gpc' = "raised"
          /\ err' = "Length must be positive"
          /\ UNCHANGED <<pins, drawn>>
     ELSE /\ pins' = pins \cup {complex_random_digits(length, random_number)}
          /\ drawn' = TRUE
          /\ UNCHANGED <<gpc, err>>
  /\ UNCHANGED <<length, count, result, detectVars, snifferVars, pinMainVars>>

\* the loop condition fails: return sorted(pins)
Generate_Return ==
  /\ gpc = "loop"
  /\ ~LoopContinues(pins, count)
  /\ result' = Sorted(pins)
  /\ gpc' = "returned"
  /\ UNCHANGED <<length, count, pins, drawn, err, detectVars, snifferVars, pinMainVars>>

NextPins ==
  \/ Generate_Enter
  \/ \E r \in RandomNumbers : Generate_Draw(r)
  \/ Generate_Return

SpecPins == InitPins /\ [][NextPins]_vars

\* the random source keeps producing every value it can produce
LiveSpecPins ==
  /\ SpecPins
  /\ WF_vars(Generate_Enter)
  /\ WF_vars(Generate_Return)
  /\ \A r \in RandomNumbers : WF_vars(Generate_Draw(r))

\* ---------------------------------------------------------------------
\* generate_pins.main
\* ---------------------------------------------------------------------

\* values argparse can deliver for --count4 / --count6 / --count8
MainCounts(len) == ((-1)..MaxMainCount) \cup {Pow10(len) + 1}

\* datetime.now().isoformat(timespec="seconds")
Timestamps == {"2024-01-01T00:00:00", "2024-01-01T00:00:01"}

DigitChar(d) ==
  CASE d = 0 -> "0" [] d = 1 -> "1" [] d = 2 -> "2" [] d = 3 -> "3" [] d = 4 -> "4"
    [] d = 5 -> "5" [] d = 6 -> "6" [] d = 7 -> "7" [] d = 8 -> "8" [] d = 9 -> "9"

\* a digit sequence as the text written to the file
RECURSIVE PinText(_)
PinText(s) == IF s = << >> THEN "" ELSE DigitChar(Head(s)) \o PinText(Tail(s))

\* the write() calls of one group: the label, then one line per PIN
GroupWrites(group) ==
  <<"\n" \o ToString(group[1]) \o "-digit PINs:\n">> \o
  [k \in 1..Len(group[2]) |-> PinText(group[2][k]) \o "\n"]

RECURSIVE AllGroupWrites(_)
AllGroupWrites(gs) ==
  IF gs = << >> THEN << >> ELSE GroupWrites(Head(gs)) \o AllGroupWrites(Tail(gs))

\* _write_output: every write() call on the opened file, in order
write_output(timestamp, pins_by_length) ==
  [opened |-> TRUE,
   writes |-> <<"PIN generation time: " \o timestamp \o "\n">> \o AllGroupWrites(pins_by_length)]

InitPinMain ==
  /\ args \in { [count4 |-> c4, count6 |-> c6, count8 |-> c8, info |-> i] :
                  c4 \in MainCounts(4), c6 \in MainCounts(6), c8 \in MainCounts(8), i \in BOOLEAN }
  /\ groups = << >>
  /\ mpc = "start"
  /\ file = [opened |-> FALSE, writes |-> << >>]
  /\ GenIdle /\ DetectIdle /\ SnifferIdle

\* the call _generate_unique_pins(len, n): a fresh activation at its entry
CallGenerate(len, n) ==
  /\ length' = len
  /\ count' = n
  /\ pins' = {}
  /\ drawn' = FALSE
  /\ gpc' = "entry"
  /\ result' = << >>
  /\ err' = NoError

\* `if args.info: _print_rules(); return`, else the first call
PinMain_Start ==
  /\ mpc = "start"
  /\ IF args.info
     THEN /\ mpc' = "info_done"
          /\ UNCHANGED genVars
     ELSE /\ mpc' = "gen4"
          /\ CallGenerate(4, args.count4)
  /\ UNCHANGED <<args, groups, file, detectVars, snifferVars>>

\* a call returned: bind pins4 / pins6 / pins8 and go on to the next statement
PinMain_Bind ==
  /\ mpc \in {"gen4", "gen6", "gen8"}
  /\ gpc = "returned"
  /\ groups' = Append(groups, <<length, result>>)
  /\ CASE mpc = "gen4" -> mpc' = "gen6" /\ CallGenerate(6, args.count6)
       [] mpc = "gen6" -> mpc' = "gen8" /\ CallGenerate(8, args.count8)
       [] mpc = "gen8" -> mpc' = "write" /\ gpc' = "idle"
                          /\ UNCHANGED <<length, count, pins, drawn, result, err>>
  /\ UNCHANGED <<args, file, detectVars, snifferVars>>

\* a call raised ValueError: nothing in main catches it
PinMain_Abort ==
  /\ mpc \in {"gen4", "gen6", "gen8"}
  /\ gpc = "raised"
  /\ mpc' = "aborted"
  /\ gpc' = "idle"
  /\ UNCHANGED <<length, count, pins, drawn, result, err, args, groups, file, detectVars, snifferVars>>

\* _write_output(args.output, ((4, pins4), (6, pins6), (8, pins8)))
PinMain_Write(timestamp) ==
  /\ mpc = "write"
  /\ file' = write_output(timestamp, groups)
  /\ mpc' = "done"
  /\ UNCHANGED <<args, groups, genVars, detectVars, snifferVars>>

NextPinMain ==
  \/ PinMain_Start
  \/ Generate_Enter
  \/ \E r \in RandomNumbers : Generate_Draw(r)
  \/ Generate_Return
  \/ PinMain_Bind
  \/ PinMain_Abort
  \/ \E t \in Timestamps : PinMain_Write(t)

SpecPinMain == InitPinMain /\ [][NextPinMain]_vars

\* =====================================================================
\*                              Properties
\* =====================================================================

\* p is a byte-for-byte prefix of h
IsPrefixOf(p, h) == Len(p) <= Len(h) /\ SubSeq(h, 1, Len(p)) = p

\* positions of the catalog entries that own a pattern which is a prefix of h
MatchingEntries(h, cat) ==
  { i \in DOMAIN cat : \E j \in DOMAIN cat[i].patterns : IsPrefixOf(cat[i].patterns[j], h) }

\* C1: detect_file_type returns the first type, in catalog order, owning a
\* pattern that is a prefix of the header, and None when no pattern of any
\* type is a prefix; this for every header (empty and short ones included)
\* and every ordered catalog.
Thm_C1_FirstMatch ==
  dpc = "returned" =>
    LET m == MatchingEntries(header, db) IN
      IF m = {} THEN detected = None
      ELSE \E i \in m : /\ \A k \in m : i <= k
                        /\ detected = db[i].name

\* two types match the header and the earlier one was returned
Wit_C1_OverlapResolvedByOrder ==
  /\ dpc = "returned"
  /\ \E i, k \in MatchingEntries(header, db) :
       i < k /\ db[i].name # db[k].name /\ detected = db[i].name

\* C10: in the shipped catalog no pattern of one type is a prefix of, or equal
\* to, a pattern of another type; so at most one type matches any header, the
\* result does not depend on the order of the catalog, and the first match is
\* also the longest match.
NoCrossTypePrefix(cat) ==
  \A i, k \in DOMAIN cat :
    i # k => \A a \in DOMAIN cat[i].patterns, b \in DOMAIN cat[k].patterns :
               ~IsPrefixOf(cat[i].patterns[a], cat[k].patterns[b])

OwnsLongestMatch(h, cat, i) ==
  \E a \in DOMAIN cat[i].patterns :
    /\ IsPrefixOf(cat[i].patterns[a], h)
    /\ \A k \in DOMAIN cat : \A b \in DOMAIN cat[k].patterns :
         IsPrefixOf(cat[k].patterns[b], h) => Len(cat[k].patterns[b]) <= Len(cat[i].patterns[a])

Thm_C10_ShippedCatalogUnambiguous ==
  /\ NoCrossTypePrefix(MAGIC_DATABASE)
  /\ (dpc = "returned" /\ db \in Orders(MAGIC_DATABASE)) =>
       /\ Cardinality(MatchingEntries(header, db)) <= 1
       /\ detected = detect_file_type(header, MAGIC_DATABASE)
       /\ detected # None =>
            \E i \in DOMAIN db : db[i].name = detected /\ OwnsLongestMatch(header, db, i)

\* a header is recognised under the reversed catalog order
Wit_C10_MatchUnderReversedOrder ==
  /\ dpc = "returned"
  /\ db = Reverse(MAGIC_DATABASE)
  /\ header = <<255, 216, 255, 0>>
  /\ detected = "JPEG"

\* C2: analyze_file puts every (detected, expected) pair into exactly one of
\* three outcomes: expected known and different from detected (Unknown
\* included) - a mismatch naming both types; no expected type and detected not
\* Unknown - the "no known expected type" mismatch; otherwise no mismatch.
Outcome1(d, e) == e # None /\ e # d
Outcome2(d, e) == e = None /\ d # "Unknown"
Outcome3(d, e) == e = d \/ (e = None /\ d = "Unknown")

Thm_C2_ThreeWayClassification ==
  pc = "analyzed" =>
    LET d == last.detected
        e == last.expected
    IN /\ d # None
       /\ Cardinality({ n \in 1..3 : \/ n = 1 /\ Outcome1(d, e)
                                     \/ n = 2 /\ Outcome2(d, e)
                                     \/ n = 3 /\ Outcome3(d, e) }) = 1
       /\ Outcome1(d, e) =>
            last.mismatch = "Extension suggests " \o e \o ", but header indicates " \o d \o "."
       /\ Outcome2(d, e) =>
            last.mismatch = "No known expected type for this extension."
       /\ Outcome3(d, e) => last.mismatch = None

\* an uncataloged extension on unrecognised content: no mismatch
Wit_C2_NoExpectationUnknownContent ==
  /\ pc = "analyzed"
  /\ last.expected = None
  /\ last.detected = "Unknown"
  /\ last.mismatch = None
  /\ files[1].suffix = <<46, 120, 121, 122>>

\* the entries the summary must list: one per existing path whose analysis
\* reports a mismatch, in input order
RECURSIVE ExpectedIssues(_)
ExpectedIssues(fs) ==
  IF fs = << >> THEN << >>
  ELSE LET f == Head(fs) IN
       (IF f.kind = "file" /\ analyze_file(f, MAGIC_DATABASE, EXTENSION_MAP).mismatch # None
        THEN << f.name \o ": " \o analyze_file(f, MAGIC_DATABASE, EXTENSION_MAP).mismatch >>
        ELSE << >>) \o ExpectedIssues(Tail(fs))

Lines(text) == { k \in DOMAIN output : output[k] = text }

SummaryTail ==
  LET issues == ExpectedIssues(files) IN
    <<"\nSummary:">> \o
    (IF issues = << >> THEN <<AllMatchLine>>
     ELSE [k \in 1..Len(issues) |-> "- " \o issues[k]])

SummaryAsClaimed ==
  /\ mismatches = ExpectedIssues(files)
  /\ Len(output) >= Len(SummaryTail)
  /\ SubSeq(output, Len(output) - Len(SummaryTail) + 1, Len(output)) = SummaryTail
  /\ \A i \in DOMAIN files :
       /\ files[i].kind = "missing" =>
            Lines("[ERROR] " \o files[i].name \o " does not exist.") # {}
       /\ files[i].kind # "missing" => Lines("\nFile: " \o files[i].name) # {}

\* C7: for every list of paths, a nonexistent path gives an error line and is
\* skipped, every later path is still processed, and the run ends with the
\* summary holding one entry per existing file with a mismatch, in input
\* order, or the single none-found line.
Claim_C7_SummaryForEveryPathList ==
  (files # << >> /\ pc \notin {"idle", "start", "loop"}) =>
    /\ pc = "done"
    /\ SummaryAsClaimed

\* what does hold: every run that reaches the summary has it as claimed
Lemma_C7_SummaryWhenNoOpenFails ==
  pc = "done" => SummaryAsClaimed

\* C8: the sniffer's exit code is always 0 for a non-empty list of paths,
\* whether they are missing, readable or impossible to open.
Claim_C8_ExitCodeAlwaysZero ==
  (files # << >> /\ pc \notin {"idle", "start", "loop"}) =>
    /\ pc = "done"
    /\ exit_code = 0

\* count exceeds 10^length, as a statement about integers (10^length is a
\* fraction below 1 when length is negative)
CountExceedsSpace(len, n) ==
  IF len >= 0 THEN n > Pow10(len) ELSE n >= 1

\* C3: _generate_unique_pins fails with ValueError, and returns no list,
\* whenever length <= 0, or count < 0, or count > 10^length.
Claim_C3_InvalidArgumentsNeverReturn ==
  (length <= 0 \/ count < 0 \/ CountExceedsSpace(length, count)) => gpc # "returned"

\* the value of a digit string read as a decimal number
RECURSIVE NumVal(_)
NumVal(s) == IF s = << >> THEN 0 ELSE 10 * NumVal(SubSeq(s, 1, Len(s) - 1)) + s[Len(s)]

InRange == length >= 1 /\ 0 <= count /\ count <= Pow10(length)

\* C4: whenever _generate_unique_pins returns, for length >= 1 and
\* 0 <= count <= 10^length, the list has exactly count elements, pairwise
\* distinct, each a string of exactly length decimal digits, in ascending order.
Thm_C4_ReturnedPinsWellFormed ==
  (gpc = "returned" /\ InRange) =>
    /\ Len(result) = count
    /\ \A i \in DOMAIN result :
         /\ Len(result[i]) = length
         /\ \A k \in 1..Len(result[i]) : result[i][k] \in 0..9
    /\ \A i, k \in DOMAIN result : i < k => NumVal(result[i]) < NumVal(result[k])

\* three two-digit PINs were returned in ascending order, two of them zero-padded
Wit_C4_ZeroPaddedSortedPins ==
  /\ gpc = "returned"
  /\ length = 2
  /\ count = 3
  /\ result = << <<0, 0>>, <<0, 7>>, <<1, 0>> >>

\* C5: when count exceeds 10^length the call fails with the validation error
\* before any generation: the random source is never read and no PIN is ever
\* added, and the call neither enters the loop nor returns.
Thm_C5_OversizedCountFailsBeforeGeneration ==
  (gpc # "idle" /\ length >= 0 /\ count > Pow10(length)) =>
    /\ ~drawn
    /\ pins = {}
    /\ gpc \in {"entry", "raised"}
    /\ gpc = "raised" => err = "Cannot generate"

\* count = 11 for one-digit PINs was refused with nothing drawn
Wit_C5_ElevenOneDigitPinsRefused ==
  /\ gpc = "raised"
  /\ length = 1
  /\ count = 11
  /\ err = "Cannot generate"
  /\ ~drawn

Invalid(n, len) == n < 0 \/ n > Pow10(len)

AnyInvalid == Invalid(args.count4, 4) \/ Invalid(args.count6, 6) \/ Invalid(args.count8, 8)

Covered(len) ==
  \A d \in 0..(Pow10(len) - 1) : \E r \in RandomNumbers : r % Pow10(len) = d

\* every string of len decimal digits
AllDigitStrings(len) == { FormatPin(d, len) : d \in 0..(Pow10(len) - 1) }

\* C9: for length >= 1 and 0 <= count <= 10^length the duplicate-rejection
\* loop terminates when the random source keeps yielding every digit string
\* of that length; the set never shrinks and never exceeds count; and at
\* count = 10^length the returned list is every digit string exactly once.
Thm_C9_LoopTerminatesAndIsBounded ==
  /\ [](( gpc = "entry" /\ InRange /\ Covered(length)) => <>(gpc = "returned"))
  /\ [][InRange => Cardinality(pins') >= Cardinality(pins)]_vars
  /\ [](InRange => Cardinality(pins) <= count)
  /\ []((gpc = "returned" /\ InRange /\ count = Pow10(length)) =>
          /\ Len(result) = Pow10(length)
          /\ { result[i] : i \in DOMAIN result } = AllDigitStrings(length))

\* all ten one-digit PINs were returned
Wit_C9_FullSpaceReturned ==
  /\ gpc = "returned"
  /\ length = 1
  /\ count = 10
  /\ Cardinality(pins) = 10
  /\ Len(result) = 10
====
